---- MODULE Spec2Model ----
(***************************************************************************)
(* The streaming bridge of AIService (src/unnamed/part_001): the session   *)
(* that streamGenerateContent opens on the upstream response, its decoder  *)
(* (processStreamBuffer), its extractors (extractContentFromJSON,          *)
(* processCompleteResponse), the image persistence tasks it dispatches     *)
(* (handleImageData) and the batch caller (generateContent).               *)
(*                                                                         *)
(* The upstream body is a sequence of symbols.  A symbol is one character  *)
(* of the body, except that a member name is carried with its quotes and   *)
(* its colon as one symbol: "candidates" stands for the 13 characters      *)
(* "candidates": of the body.  Such a run holds no brace, no backslash and *)
(* two quotes, and it only occurs inside an object, so a chunk boundary    *)
(* inside the run leaves the decoder exactly where a boundary in front of  *)
(* the run leaves it.  String values are carried character by character.   *)
(***************************************************************************)
EXTENDS Integers, Sequences, FiniteSets, TLC

LB == "{"
RB == "}"
LK == "["
RK == "]"
CM == ","
QT == "\""
BS == "\\"
SL == "/"
NL == "\n"
SP == " "

\* The member names of the upstream wire contract.
Keys ==
  {"candidates", "content", "parts", "text", "inlineData", "data",
   "mimeType", "promptFeedback", "blockReason"}

Whitespace == {SP, NL}

(***************************************************************************)
(* JSON values.  Every value is a record of one shape:                     *)
(*   a string  [t |-> "str", s |-> its characters, kv |-> <<>>]            *)
(*   an array  [t |-> "arr", s |-> <<>>, kv |-> its items, each under ""]  *)
(*   an object [t |-> "obj", s |-> <<>>, kv |-> its members in order]      *)
(* and Undefined is what a property read of a missing member yields.       *)
(***************************************************************************)
Undefined == [t |-> "undefined", s |-> <<>>, kv |-> <<>>]
StrV(s) == [t |-> "str", s |-> s, kv |-> <<>>]
ArrV(items) == [t |-> "arr", s |-> <<>>, kv |-> items]
ObjV(members) == [t |-> "obj", s |-> <<>>, kv |-> members]

ParseFail == [ok |-> FALSE, v |-> Undefined, n |-> 0]
ParseOk(v, n) == [ok |-> TRUE, v |-> v, n |-> n]

(***************************************************************************)
(* JSON.parse on the grammar of the wire contract: objects, arrays and     *)
(* strings, no whitespace between the tokens of a value.  In a string a    *)
(* backslash is followed by a quote, a backslash or a slash and yields     *)
(* that character; any other escape of the alphabet is a syntax error.     *)
(***************************************************************************)
RECURSIVE ParseString(_, _, _)
ParseString(s, i, acc) ==
  IF i > Len(s) THEN ParseFail
  ELSE IF s[i] = QT THEN ParseOk(StrV(acc), i + 1)
  ELSE IF s[i] = BS
    THEN IF i + 1 <= Len(s) /\ s[i + 1] \in {QT, BS, SL}
           THEN ParseString(s, i + 2, Append(acc, s[i + 1]))
           ELSE ParseFail
  ELSE IF s[i] \in Keys \/ s[i] = NL THEN ParseFail
  ELSE ParseString(s, i + 1, Append(acc, s[i]))

RECURSIVE ParseValue(_, _)
RECURSIVE ParseMembers(_, _, _)
RECURSIVE ParseItems(_, _, _)

ParseMembers(s, i, acc) ==
  IF i > Len(s) THEN ParseFail
  ELSE IF s[i] = RB /\ Len(acc) = 0 THEN ParseOk(ObjV(acc), i + 1)
  ELSE IF s[i] \notin Keys THEN ParseFail
  ELSE LET r == ParseValue(s, i + 1) IN
    IF ~r.ok \/ r.n > Len(s) THEN ParseFail
    ELSE LET acc2 == Append(acc, [k |-> s[i], v |-> r.v]) IN
      IF s[r.n] = RB THEN ParseOk(ObjV(acc2), r.n + 1)
      ELSE IF s[r.n] = CM /\ r.n + 1 <= Len(s) /\ s[r.n + 1] \in Keys
        THEN ParseMembers(s, r.n + 1, acc2)
      ELSE ParseFail

ParseItems(s, i, acc) ==
  IF i > Len(s) THEN ParseFail
  ELSE IF s[i] = RK /\ Len(acc) = 0 THEN ParseOk(ArrV(acc), i + 1)
  ELSE LET r == ParseValue(s, i) IN
    IF ~r.ok \/ r.n > Len(s) THEN ParseFail
    ELSE LET acc2 == Append(acc, [k |-> "", v |-> r.v]) IN
      IF s[r.n] = RK THEN ParseOk(ArrV(acc2), r.n + 1)
      ELSE IF s[r.n] = CM /\ r.n + 1 <= Len(s) /\ s[r.n + 1] # RK
        THEN ParseItems(s, r.n + 1, acc2)
      ELSE ParseFail

ParseValue(s, i) ==
  IF i > Len(s) THEN ParseFail
  ELSE IF s[i] = LB THEN ParseMembers(s, i + 1, <<>>)
  ELSE IF s[i] = LK THEN ParseItems(s, i + 1, <<>>)
  ELSE IF s[i] = QT THEN ParseString(s, i + 1, <<>>)
  ELSE ParseFail

\* JSON.parse(s): the value, or a SyntaxError (ok = FALSE).
JSONParse(s) ==
  LET r == ParseValue(s, 1) IN
  IF r.ok /\ r.n = Len(s) + 1 THEN r ELSE ParseFail

(***************************************************************************)
(* Property reads and coercions of JavaScript on these values.             *)
(***************************************************************************)
RECURSIVE LastMember(_, _, _)
LastMember(kv, k, i) ==
  IF i = 0 THEN Undefined
  ELSE IF kv[i].k = k THEN kv[i].v
  ELSE LastMember(kv, k, i - 1)

\* v.k: the member of an object, undefined on anything else.
Get(v, k) == IF v.t = "obj" THEN LastMember(v.kv, k, Len(v.kv)) ELSE Undefined

\* if (v): a non-empty string, an array or an object.
Truthy(v) == v.t \in {"obj", "arr"} \/ (v.t = "str" /\ Len(v.s) > 0)

\* '' + v: a string as it is, an array as its items joined by commas, an
\* object as [object Object].
RECURSIVE StringOf(_)
RECURSIVE JoinItems(_, _)
JoinItems(kv, i) ==
  IF i > Len(kv) THEN <<>>
  ELSE (IF i > 1 THEN <<CM>> ELSE <<>>) \o StringOf(kv[i].v) \o JoinItems(kv, i + 1)

StringOf(v) ==
  IF v.t = "str" THEN v.s
  ELSE IF v.t = "arr" THEN JoinItems(v.kv, 1)
  ELSE IF v.t = "obj" THEN <<"[object Object]">>
  ELSE <<"undefined">>

\* str.trim()
RECURSIVE TrimLeft(_)
TrimLeft(s) ==
  IF Len(s) > 0 /\ s[1] \in Whitespace THEN TrimLeft(Tail(s)) ELSE s

RECURSIVE TrimRight(_)
TrimRight(s) ==
  IF Len(s) > 0 /\ s[Len(s)] \in Whitespace
    THEN TrimRight(SubSeq(s, 1, Len(s) - 1))
    ELSE s

Trim(s) == TrimRight(TrimLeft(s))

\* buffer.indexOf('{'), 1-based; 0 when there is none.
RECURSIVE IndexOfFrom(_, _, _)
IndexOfFrom(s, c, i) ==
  IF i > Len(s) THEN 0
  ELSE IF s[i] = c THEN i
  ELSE IndexOfFrom(s, c, i + 1)

IndexOf(s, c) == IndexOfFrom(s, c, 1)

(***************************************************************************)
(* extractContentFromJSON: the shaped interpretation.                      *)
(***************************************************************************)
NoImage == [present |-> FALSE, data |-> Undefined, mimeType |-> <<>>]
DefaultMime == <<"image/png">>

\* for (const part of candidate.content.parts): a text part adds its text,
\* an inlineData part with data REPLACES result.imageData.
RECURSIVE ExtractParts(_, _, _)
ExtractParts(parts, i, res) ==
  IF i > Len(parts) THEN res
  ELSE LET part == parts[i].v
           inl == Get(part, "inlineData")
           mt == Get(inl, "mimeType")
       IN
    IF Truthy(Get(part, "text"))
      THEN ExtractParts(parts, i + 1,
             [res EXCEPT !.text = @ \o StringOf(Get(part, "text"))])
    ELSE IF Truthy(inl) /\ Truthy(Get(inl, "data"))
      THEN ExtractParts(parts, i + 1,
             [res EXCEPT !.imageData =
                [present |-> TRUE, data |-> Get(inl, "data"),
                 mimeType |-> IF Truthy(mt) THEN StringOf(mt) ELSE DefaultMime]])
    ELSE ExtractParts(parts, i + 1, res)

\* for (const candidate of jsonData.candidates).  Iterating a parts value
\* that is an object throws a TypeError (thrown = TRUE); iterating a string
\* visits characters, which have no members.
RECURSIVE ExtractCandidates(_, _, _)
ExtractCandidates(cands, i, res) ==
  IF i > Len(cands) \/ res.thrown THEN res
  ELSE LET content == Get(cands[i].v, "content")
           parts == Get(content, "parts")
       IN
    IF Truthy(content) /\ Truthy(parts)
      THEN IF parts.t = "obj"
             THEN [res EXCEPT !.thrown = TRUE, !.message = <<"parts is not iterable">>]
             ELSE ExtractCandidates(cands, i + 1, ExtractParts(parts.kv, 1, res))
      ELSE ExtractCandidates(cands, i + 1, res)

BlockedMessage(reason) == <<"Request blocked: ">> \o reason

extractContentFromJSON(jsonData) ==
  LET cands == Get(jsonData, "candidates")
      res0 == [thrown |-> FALSE, message |-> <<>>, text |-> <<>>, imageData |-> NoImage]
      res1 == IF cands.t = "arr" /\ Len(cands.kv) > 0
                THEN ExtractCandidates(cands.kv, 1, res0)
                ELSE res0
      pf == Get(jsonData, "promptFeedback")
  IN
  IF res1.thrown THEN res1
  ELSE IF Truthy(pf) /\ Truthy(Get(pf, "blockReason"))
    THEN [res1 EXCEPT !.thrown = TRUE,
                      !.message = BlockedMessage(StringOf(Get(pf, "blockReason")))]
  ELSE res1

(***************************************************************************)
(* processStreamBuffer: the brace scanner, then at most ONE extraction.    *)
(***************************************************************************)
\* The for loop of the scanner from index i on.  endIndex is 0 when the loop
\* runs off the buffer; inString is the flag the loop ends with.
\* A member-name symbol is the run "name": of the body: without a pending
\* escape its two quotes toggle the flag twice; with one, its first quote
\* is skipped and the second toggles the flag.
\* The scanner without lines 202-205: a backslash is an ordinary character.
RECURSIVE ScanLoopNoEscape(_, _, _, _, _)
ScanLoopNoEscape(buffer, i, braceCount, inString, escapeNext) ==
  IF i > Len(buffer) THEN [endIndex |-> 0, inString |-> inString]
  ELSE LET char == buffer[i] IN
    IF char = QT \/ char \in Keys
      THEN ScanLoopNoEscape(buffer, i + 1, braceCount,
                            IF char = QT THEN ~inString ELSE inString, FALSE)
    ELSE IF ~inString /\ char = LB
      THEN ScanLoopNoEscape(buffer, i + 1, braceCount + 1, inString, FALSE)
    ELSE IF ~inString /\ char = RB
      THEN IF braceCount - 1 = 0
             THEN [endIndex |-> i, inString |-> inString]
             ELSE ScanLoopNoEscape(buffer, i + 1, braceCount - 1, inString, FALSE)
    ELSE ScanLoopNoEscape(buffer, i + 1, braceCount, inString, FALSE)

RECURSIVE ScanLoop(_, _, _, _, _)
ScanLoop(buffer, i, braceCount, inString, escapeNext) ==
  IF i > Len(buffer) THEN [endIndex |-> 0, inString |-> inString]
  ELSE LET char == buffer[i] IN
    IF escapeNext
      THEN ScanLoop(buffer, i + 1, braceCount,
                    IF char \in Keys THEN ~inString ELSE inString, FALSE)
    ELSE IF char = BS THEN ScanLoop(buffer, i + 1, braceCount, inString, TRUE)
    ELSE IF char = QT THEN ScanLoop(buffer, i + 1, braceCount, ~inString, FALSE)
    ELSE IF ~inString /\ char = LB
      THEN ScanLoop(buffer, i + 1, braceCount + 1, inString, FALSE)
    ELSE IF ~inString /\ char = RB
      THEN IF braceCount - 1 = 0
             THEN [endIndex |-> i, inString |-> inString]
             ELSE ScanLoop(buffer, i + 1, braceCount - 1, inString, FALSE)
    ELSE ScanLoop(buffer, i + 1, braceCount, inString, FALSE)

\* The call that forgets to remove the extracted span.
RemainingKept(buffer, endIndex) == buffer

\* remainingBuffer = buffer.substring(endIndex + 1) (line 258)
RemainingBuffer(buffer, endIndex) == SubSeq(buffer, endIndex + 1, Len(buffer))

\* The call that drops a span it could not extract.
processStreamBufferSkips(buffer) ==
  LET startIndex == IndexOf(buffer, LB)
      none == [outcome |-> "nobrace", text |-> <<>>, remainingBuffer |-> buffer,
               imageData |-> NoImage, start |-> 0, end |-> 0, inString |-> FALSE]
  IN
  IF startIndex = 0 THEN none
  ELSE LET scan == ScanLoop(buffer, startIndex, 0, FALSE, FALSE)
           endIndex == scan.endIndex
       IN
    IF endIndex = 0
      THEN [none EXCEPT !.outcome = "open", !.inString = scan.inString]
    ELSE LET jsonStr == SubSeq(buffer, startIndex, endIndex)
             parsed == JSONParse(jsonStr)
             processed == extractContentFromJSON(parsed.v)
         IN
      IF ~parsed.ok \/ processed.thrown
        THEN [none EXCEPT !.outcome = "caught", !.start = startIndex, !.end = endIndex,
                          !.remainingBuffer = RemainingBuffer(buffer, endIndex)]
        ELSE [outcome |-> "extracted",
              text |-> processed.text,
              remainingBuffer |-> RemainingBuffer(buffer, endIndex),
              imageData |-> processed.imageData,
              start |-> startIndex, end |-> endIndex, inString |-> FALSE]

\* What one call does: outcome "nobrace" (no '{'), "open" (no balanced
\* span), "caught" (JSON.parse or the extractor threw inside the try) or
\* "extracted".  start and end are the span's indices in the buffer.
processStreamBuffer(buffer) ==
  LET startIndex == IndexOf(buffer, LB)
      none == [outcome |-> "nobrace", text |-> <<>>, remainingBuffer |-> buffer,
               imageData |-> NoImage, start |-> 0, end |-> 0, inString |-> FALSE]
  IN
  IF startIndex = 0 THEN none
  ELSE LET scan == ScanLoop(buffer, startIndex, 0, FALSE, FALSE)
           endIndex == scan.endIndex
       IN
    IF endIndex = 0
      THEN [none EXCEPT !.outcome = "open", !.inString = scan.inString]
    ELSE LET jsonStr == SubSeq(buffer, startIndex, endIndex)
             parsed == JSONParse(jsonStr)
             processed == extractContentFromJSON(parsed.v)
         IN
      IF ~parsed.ok \/ processed.thrown
        THEN [none EXCEPT !.outcome = "caught", !.start = startIndex, !.end = endIndex]
        ELSE [outcome |-> "extracted",
              text |-> processed.text,
              remainingBuffer |-> RemainingBuffer(buffer, endIndex),
              imageData |-> processed.imageData,
              start |-> startIndex, end |-> endIndex, inString |-> FALSE]

(***************************************************************************)
(* tryParseCompleteJSON.  cleaned is declared inside the try block, so the *)
(* repair code of the catch block reads a name that is out of scope: the   *)
(* ReferenceError is caught by the inner catch and the function returns    *)
(* null whenever the direct parse fails.                                   *)
(***************************************************************************)
\* The function without its try: a failed JSON.parse leaves it as an
\* exception.
tryParseUncaught(buffer) ==
  LET cleaned == Trim(buffer)
      direct == JSONParse(cleaned)
  IN
  IF Len(cleaned) = 0 THEN [ok |-> FALSE, v |-> Undefined, thrown |-> FALSE]
  ELSE [ok |-> direct.ok, v |-> direct.v, thrown |-> ~direct.ok]

\* ok and v: the value returned (null when not ok); thrown: an exception
\* left the function, which its two catch blocks never let happen.
tryParseCompleteJSON(buffer) ==
  LET cleaned == Trim(buffer)
      direct == JSONParse(cleaned)
  IN
  IF Len(cleaned) = 0 THEN [ok |-> FALSE, v |-> Undefined, thrown |-> FALSE]
  ELSE [ok |-> direct.ok, v |-> direct.v, thrown |-> FALSE]

(***************************************************************************)
(* processCompleteResponse: the generic recursive walk.  A node adds its   *)
(* text, then its inlineData (only with data and mimeType), then its       *)
(* members in order.                                                       *)
(***************************************************************************)
RECURSIVE extractRecursive(_, _)
RECURSIVE WalkValues(_, _, _)
WalkValues(kv, i, res) ==
  IF i > Len(kv) THEN res
  ELSE WalkValues(kv, i + 1, extractRecursive(kv[i].v, res))

extractRecursive(obj, res) ==
  IF obj.t = "arr" THEN WalkValues(obj.kv, 1, res)
  ELSE IF obj.t # "obj" THEN res
  ELSE LET inl == Get(obj, "inlineData")
           r1 == IF Truthy(Get(obj, "text"))
                   THEN [res EXCEPT !.text = @ \o StringOf(Get(obj, "text"))]
                   ELSE res
           r2 == IF Truthy(inl) /\ Truthy(Get(inl, "data")) /\ Truthy(Get(inl, "mimeType"))
                   THEN [r1 EXCEPT !.images = Append(@,
                           [data |-> Get(inl, "data"),
                            mimeType |-> StringOf(Get(inl, "mimeType")),
                            key |-> 0])]
                   ELSE r1
       IN WalkValues(obj.kv, 1, r2)

(***************************************************************************)
(* The upstream bodies the sessions are run on are concatenations of       *)
(* pieces.  A piece is an object of the wire contract                      *)
(*   {candidates:[{content:{parts:[...]}}], promptFeedback?:{blockReason}} *)
(* or something the decoder has to survive.                                *)
(***************************************************************************)
\* A session is followed for at most MaxChunks 'data' events.
MaxChunks == 3

StrLit(raw) == <<QT>> \o raw \o <<QT>>
TextPart(raw) == <<LB, "text">> \o StrLit(raw) \o <<RB>>
ImagePart(data, mime) ==
  <<LB, "inlineData", LB, "data">> \o StrLit(data)
    \o <<CM, "mimeType">> \o StrLit(mime) \o <<RB, RB>>
Shaped(parts) ==
  <<LB, "candidates", LK, LB, "content", LB, "parts", LK>> \o parts
    \o <<RK, RB, RB, RK, RB>>

\* {"candidates":[{"content":{"parts":[{"text":"H"}]}}]}
Hello == Shaped(TextPart(<<"H">>))
\* The text a"}\ written a\"}\\ : an escaped quote, a brace inside the
\* string literal and an escaped backslash right before the closing quote.
QuotedRaw == <<"a", BS, QT, RB, BS, BS>>
QuotedText == <<"a", QT, RB, BS>>
Quoted == Shaped(TextPart(QuotedRaw))
\* One inlineData part.
Image == Shaped(ImagePart(<<"Q">>, <<"p">>))
\* Two inlineData parts in one object.
TwoImages == Shaped(ImagePart(<<"Q">>, <<"p">>) \o <<CM>> \o ImagePart(<<"R">>, <<"p">>))
\* {"promptFeedback":{"blockReason":"S"}}
BlockReason == <<"S">>
Blocked == <<LB, "promptFeedback", LB, "blockReason">> \o StrLit(BlockReason) \o <<RB, RB>>
\* {"text":"a\"}\\"}: valid JSON with no candidates and no block indicator.
Unshaped == <<LB, "text">> \o StrLit(QuotedRaw) \o <<RB>>
\* {,}: a balanced span that is not JSON.
Malformed == <<LB, CM, RB>>
\* The separator between the objects of a streamed array.
Noise == <<CM>>

Pieces == {Hello, Quoted, Image, TwoImages, Blocked, Unshaped, Malformed, Noise}

RECURSIVE Concat(_)
Concat(ps) == IF Len(ps) = 0 THEN <<>> ELSE Head(ps) \o Concat(Tail(ps))

\* The bodies: nothing, one piece, two pieces, three pieces of text and
\* image content, and two text objects with the separator between them.
Bodies ==
  {<<>>}
    \cup {<<a>> : a \in Pieces}
    \cup {<<a, b>> : a \in Pieces, b \in Pieces}
    \cup {<<a, b, c>> : a \in {Hello, Image}, b \in {Hello, Image}, c \in {Hello, Image}}
    \cup {<<Hello, Noise, Hello>>}

VARIABLES
  pieces,            \* the pieces of the upstream body (fixed per session)
  input,             \* the upstream body: Concat(pieces)
  pos,               \* how much of it the 'data' events have delivered
  pc,                \* "idle", "refused", "requesting", "streaming",
                     \* "finalizing", "resolved", "rejected"
  endpoint,          \* the route that runs the session: "stream" or "batch"
  upstream,          \* response.data: "none", "open", "ended", "errored"
  httpStatus,        \* the status of the HTTP response, 0 before it is set
  sse,               \* the events res.write was called with, in order
  endedAt,           \* Len(sse) when res.end() was called, 0 before
  buffer,            \* let buffer (line 79)
  responseText,      \* let responseText (line 80)
  cacheKeys,         \* const cacheKeys (line 81)
  chunkCount,        \* let chunkCount (line 83)
  events,            \* the chunks onChunk has been called with, in order
  tasks,             \* the handleImageData calls; a task's index is its key
  fin,               \* processCompleteResponse's result while it awaits
  extracted,         \* the spans processStreamBuffer extracted, in order
  generic,           \* the span the generic walk has processed, if any
  cutInString,       \* a data event ended inside a string literal
  completeResponse,  \* generateContent's completeResponse (line 420)
  batch,             \* generateContent's promise
  cacheIndex,        \* the image files the cache directory holds
  request,           \* the GET /api/cache/image/:key request being served
  reply,             \* the response written for it
  ocrPc,             \* where the call of ocrPDF stands
  extPc,             \* where the call of extractPDF stands
  zip,               \* the archive the extract job produces
  tempFiles,         \* the files that exist in the temp directory
  writtenFiles,      \* every temp file that was ever written
  readStreams,       \* the read streams that are open
  elementIndex,      \* processExtractResult's position in structuredData.elements
  processedElements, \* processExtractResult's processedElements
  pending,           \* the cache save processExtractResult is awaiting
  savedKeys,         \* the keys whose cache save completed
  nextKey,           \* the number of uuids generated so far
  tempZipPath,       \* extractPDF's tempZipPath
  ocrPdfPath,        \* ocrPDF's ocrPdfPath
  extResult,         \* what extractPDF returned
  ocrResult          \* what ocrPDF returned

vars ==
  <<pieces, input, pos, pc, endpoint, upstream, httpStatus, sse, endedAt, buffer,
    responseText, cacheKeys, chunkCount, events, tasks, fin, extracted, generic,
    cutInString, completeResponse, batch,
    cacheIndex, request, reply, ocrPc, extPc, zip, tempFiles, writtenFiles,
    readStreams, elementIndex, processedElements, pending, savedKeys, nextKey, tempZipPath,
    ocrPdfPath, extResult, ocrResult>>

\* The variables of the cache route.
cacheVars == <<cacheIndex, request, reply>>

\* The variables of the PDF service.
pdfVars ==
  <<ocrPc, extPc, zip, tempFiles, writtenFiles, readStreams, elementIndex,
    processedElements, pending, savedKeys, nextKey, tempZipPath, ocrPdfPath,
    extResult, ocrResult>>

serviceVars == <<cacheVars, pdfVars>>

NoRequest == [key |-> 0, size |-> "none"]
NoReply == [status |-> 0]
NoZip == [data |-> "missing", elements |-> <<>>]
NoPath == [prefix |-> "none", id |-> 0]
NoPending == [type |-> "none", key |-> 0, format |-> "none"]
NoResult == [returned |-> FALSE]

\* No cache request is being served.
CacheIdle ==
  /\ cacheIndex = {}
  /\ request = NoRequest
  /\ reply = NoReply

\* No PDF call is under way.
PdfNotCalled ==
  /\ ocrPc = "none"
  /\ extPc = "none"
  /\ tempFiles = {}
  /\ writtenFiles = {}
  /\ readStreams = {}
  /\ elementIndex = 0
  /\ processedElements = <<>>
  /\ pending = NoPending
  /\ savedKeys = {}
  /\ nextKey = 0
  /\ tempZipPath = NoPath
  /\ ocrPdfPath = NoPath
  /\ extResult = NoResult
  /\ ocrResult = NoResult

PdfIdle == PdfNotCalled /\ zip = NoZip

ServiceIdle == CacheIdle /\ PdfIdle

NoFin == [text |-> <<>>, images |-> <<>>, idx |-> 0]
NoGeneric == [present |-> FALSE, s |-> 0, e |-> 0]
NoResponse == [present |-> FALSE, text |-> <<>>, images |-> <<>>, chunks |-> 0]
Pending == [state |-> "pending", shape |-> "none", text |-> <<>>, images |-> <<>>]

Init ==
  /\ pieces \in Bodies
  /\ input = Concat(pieces)
  /\ pos = 0
  /\ pc = "idle"
  /\ endpoint = "none"
  /\ upstream = "none"
  /\ httpStatus = 0
  /\ sse = <<>>
  /\ endedAt = 0
  /\ buffer = <<>>
  /\ responseText = <<>>
  /\ cacheKeys = <<>>
  /\ chunkCount = 0
  /\ events = <<>>
  /\ tasks = <<>>
  /\ fin = NoFin
  /\ extracted = <<>>
  /\ generic = NoGeneric
  /\ cutInString = FALSE
  /\ completeResponse = NoResponse
  /\ batch = Pending
  /\ ServiceIdle

(***************************************************************************)
(* The chunks handed to onChunk.                                           *)
(***************************************************************************)
\* The chunk whose accumulated is the text of this extraction only.
TextChunkNoRunningText(content, accumulated, chunkIndex, isFinal) ==
  [type |-> "text", content |-> content, accumulated |-> content,
   chunkIndex |-> chunkIndex, isFinal |-> isFinal]

TextChunk(content, accumulated, chunkIndex, isFinal) ==
  [type |-> "text", content |-> content, accumulated |-> accumulated,
   chunkIndex |-> chunkIndex, isFinal |-> isFinal]
ImageChunk(key) == [type |-> "image", key |-> key]
ErrorChunk(error) == [type |-> "error", error |-> error]
CompleteChunk(data, count) == [type |-> "complete", data |-> data, chunkCount |-> count]
ImageKeysChunk(keys) == [type |-> "image_keys", keys |-> keys, count |-> Len(keys)]
CompletionChunk(totalChunks, textLength, imageCount) ==
  [type |-> "completion", success |-> TRUE, totalChunks |-> totalChunks,
   textLength |-> textLength, imageCount |-> imageCount]

SaveFailedMessage == <<"Failed to save image: ">>

(***************************************************************************)
(* GET /api/generate/stream.  The events of the SSE response, and the      *)
(* switch of the route's onChunk: a chunk type without a case ('complete') *)
(* writes nothing.                                                         *)
(***************************************************************************)
\* process.env.MAX_TEXT_LENGTH || 5000
MaxTextLength == 5000

\* The lengths of the prompts of the requests: none, one that passes and one
\* that is too long.
Prompts == {0, 1, MaxTextLength + 1}

ConnectedEvent == [event |-> "connected", status |-> "connected"]

SseOf(chunk) ==
  IF chunk.type = "text"
    THEN <<[event |-> "text", content |-> chunk.content,
            accumulated |-> chunk.accumulated, chunkIndex |-> chunk.chunkIndex]>>
  ELSE IF chunk.type = "image"
    THEN <<[event |-> "image", key |-> chunk.key]>>
  ELSE IF chunk.type = "image_keys"
    THEN <<[event |-> "images", keys |-> chunk.keys, count |-> chunk.count]>>
  ELSE IF chunk.type = "error"
    THEN <<[event |-> "error", error |-> chunk.error]>>
  ELSE IF chunk.type = "completion"
    THEN <<[event |-> "complete", status |-> "complete", success |-> chunk.success,
            textLength |-> chunk.textLength, imageCount |-> chunk.imageCount,
            totalChunks |-> chunk.totalChunks]>>
  ELSE <<>>

RECURSIVE SseAll(_)
SseAll(chunks) ==
  IF Len(chunks) = 0 THEN <<>> ELSE SseOf(Head(chunks)) \o SseAll(Tail(chunks))

\* The final event of the success path (lines 259-266).
FinalEvent(text, keys) ==
  [event |-> "final", status |-> "final", text |-> text, cacheKeys |-> keys,
   success |-> TRUE]

StreamErrorMessage == <<"Stream error: ">>
FinalErrorMessage == <<"Final processing error: ">>
RequestErrorMessage == <<"API Error: ">>

\* The catch block that writes the error event and stops.
RouteCatchNoFinal(message) == <<[event |-> "error", error |-> message]>>

\* The catch block of the route once the response has started (lines
\* 279-292): the error event, then the final event of status 'error'.
RouteCatch(message) ==
  <<[event |-> "error", error |-> message],
    [event |-> "final", status |-> "error", error |-> message]>>

\* chunks.filter(c => c.type === t), as the indices in order.
RECURSIVE IndicesOfType(_, _, _)
IndicesOfType(chunks, t, i) ==
  IF i > Len(chunks) THEN <<>>
  ELSE (IF chunks[i].type = t THEN <<i>> ELSE <<>>) \o IndicesOfType(chunks, t, i + 1)

(***************************************************************************)
(* generateContent's onChunk on a 'completion' chunk: chunks already holds *)
(* the chunk; the text chunks with content are joined and the image        *)
(* chunks with a key are collected.                                        *)
(***************************************************************************)
RECURSIVE JoinContent(_, _)
JoinContent(chunks, idx) ==
  IF Len(idx) = 0 THEN <<>>
  ELSE (IF Len(chunks[Head(idx)].content) > 0 THEN chunks[Head(idx)].content ELSE <<>>)
         \o JoinContent(chunks, Tail(idx))

RECURSIVE CollectKeys(_, _)
CollectKeys(chunks, idx) ==
  IF Len(idx) = 0 THEN <<>>
  ELSE <<[key |-> chunks[Head(idx)].key]>> \o CollectKeys(chunks, Tail(idx))

\* The fold that joins the running text of the chunks, not their content.
RECURSIVE JoinAccumulated(_, _)
JoinAccumulated(chunks, idx) ==
  IF Len(idx) = 0 THEN <<>>
  ELSE chunks[Head(idx)].accumulated \o JoinAccumulated(chunks, Tail(idx))

BuildFromAccumulated(chunks) ==
  [present |-> TRUE,
   text |-> JoinAccumulated(chunks, IndicesOfType(chunks, "text", 1)),
   images |-> CollectKeys(chunks, IndicesOfType(chunks, "image", 1)),
   chunks |-> Len(chunks)]

BuildCompleteResponse(chunks) ==
  [present |-> TRUE,
   text |-> JoinContent(chunks, IndicesOfType(chunks, "text", 1)),
   images |-> CollectKeys(chunks, IndicesOfType(chunks, "image", 1)),
   chunks |-> Len(chunks)]

\* After await streamGenerateContent: completeResponse if there is one,
\* else the stream's own result {text, cacheKeys, success, totalChunks}.
BatchResolve(complete, text) ==
  IF complete.present
    THEN [state |-> "resolved", shape |-> "batch", text |-> complete.text,
          images |-> complete.images]
    ELSE [state |-> "resolved", shape |-> "stream", text |-> text, images |-> <<>>]

\* onChunk for the chunks that all holds beyond events.  The stream route
\* writes their events to the response; generateContent pushes them on its
\* chunks, which events stands for.
OnChunks(all) ==
  IF endpoint = "stream"
    THEN sse \o SseAll(SubSeq(all, Len(events) + 1, Len(all)))
    ELSE sse

\* streamGenerateContent's promise resolves and the caller awaiting it goes
\* on: the stream route writes the final event and ends the response;
\* generateContent, whose onChunk built completeResponse on the
\* 'completion' chunk, resolves and the batch route answers with the result.
Resolve(all, keys, text) ==
  IF endpoint = "stream"
    THEN /\ sse' = OnChunks(all) \o <<FinalEvent(text, keys)>>
         /\ endedAt' = Len(sse')
         /\ UNCHANGED <<httpStatus, completeResponse, batch>>
    ELSE /\ completeResponse' = BuildCompleteResponse(all)
         /\ batch' = BatchResolve(BuildCompleteResponse(all), text)
         /\ httpStatus' = 200
         /\ UNCHANGED <<sse, endedAt>>

\* The promise rejects: the catch of the stream route (lines 270-294), or
\* the catch of generateContent and then of the batch route (lines 323-328).
\* written is what the response holds when the promise rejects.
RejectWith(written, message) ==
  IF endpoint = "stream"
    THEN /\ IF Len(written) = 0
              THEN /\ httpStatus' = 500
                   /\ sse' = written
                   /\ UNCHANGED endedAt
              ELSE /\ sse' = written \o RouteCatch(message)
                   /\ endedAt' = Len(sse')
                   /\ UNCHANGED httpStatus
         /\ UNCHANGED <<completeResponse, batch>>
    ELSE /\ batch' = [batch EXCEPT !.state = "rejected"]
         /\ httpStatus' = 500
         /\ UNCHANGED <<sse, endedAt, completeResponse>>

Reject(message) == RejectWith(sse, message)

(***************************************************************************)
(* handleImageData up to its await: the data is read as a string (a        *)
(* TypeError on anything else, which rejects the call at once), a fresh    *)
(* key is drawn and cacheService.saveImage is started.  The task's index   *)
(* in tasks stands for the uuid.                                           *)
(***************************************************************************)
Savable(imageData) == imageData.data.t = "str"

NewTask(origin, src, imageData) ==
  [origin |-> origin, src |-> src, st |-> "saving",
   data |-> imageData.data.s, mimeType |-> imageData.mimeType]

\* The image dispatch of processStreamBuffer (lines 238-255) for the result
\* r of a call: the tasks after it, and the chunk of a .catch that runs
\* before any later event because the call was rejected at once.
DispatchTasks(r, src) ==
  IF r.imageData.present /\ Savable(r.imageData)
    THEN Append(tasks, NewTask("shaped", src, r.imageData))
    ELSE tasks

DispatchErrors(r) ==
  IF r.imageData.present /\ ~Savable(r.imageData)
    THEN <<ErrorChunk(SaveFailedMessage)>>
    ELSE <<>>

\* The record of an extraction: its span in the body, the handler that made
\* it and the index in events of its text chunk (0 when it emitted none).
ExtractedAfter(r, base, at) ==
  IF r.outcome = "extracted"
    THEN Append(extracted,
           [s |-> base + r.start, e |-> base + r.end, at |-> at,
            ev |-> IF Len(r.text) > 0 THEN Len(events) + 1 ELSE 0])
    ELSE extracted

(***************************************************************************)
(* GET /api/generate/stream up to its await (lines 166-207): a request     *)
(* without a prompt or with one that is too long is answered 400; else the *)
(* 'connected' event is written and streamGenerateContent is called.       *)
(***************************************************************************)
StreamRoute(prompt) ==
  /\ pc = "idle"
  /\ endpoint' = "stream"
  /\ IF prompt = 0 \/ prompt > MaxTextLength
       THEN /\ pc' = "refused"
            /\ httpStatus' = 400
            /\ sse' = sse
       ELSE /\ pc' = "requesting"
            /\ httpStatus' = 200
            /\ sse' = Append(sse, ConnectedEvent)
  /\ UNCHANGED serviceVars
  /\ UNCHANGED <<pieces, input, pos, upstream, endedAt, buffer, responseText,
                 cacheKeys, chunkCount, events, tasks, fin, extracted, generic,
                 cutInString, completeResponse, batch>>

(***************************************************************************)
(* POST /api/generate/batch up to its await (lines 298-320): 400 without a *)
(* prompt, else generateContent is called.                                 *)
(***************************************************************************)
BatchRoute(prompt) ==
  /\ pc = "idle"
  /\ endpoint' = "batch"
  /\ IF prompt = 0
       THEN /\ pc' = "refused"
            /\ httpStatus' = 400
       ELSE /\ pc' = "requesting"
            /\ httpStatus' = httpStatus
  /\ UNCHANGED serviceVars
  /\ UNCHANGED <<pieces, input, pos, upstream, sse, endedAt, buffer, responseText,
                 cacheKeys, chunkCount, events, tasks, fin, extracted, generic,
                 cutInString, completeResponse, batch>>

(***************************************************************************)
(* await axios(...) (lines 68-78): the response arrives and the handlers   *)
(* are attached, or the request fails and streamGenerateContent throws.    *)
(***************************************************************************)
Response ==
  /\ pc = "requesting"
  /\ pc' = "streaming"
  /\ upstream' = "open"
  /\ UNCHANGED serviceVars
  /\ UNCHANGED <<pieces, input, pos, endpoint, httpStatus, sse, endedAt, buffer,
                 responseText, cacheKeys, chunkCount, events, tasks, fin, extracted,
                 generic, cutInString, completeResponse, batch>>

RequestFailed ==
  /\ pc = "requesting"
  /\ pc' = "rejected"
  /\ Reject(RequestErrorMessage)
  /\ UNCHANGED serviceVars
  /\ UNCHANGED <<pieces, input, pos, endpoint, upstream, buffer, responseText,
                 cacheKeys, chunkCount, events, tasks, fin, extracted, generic,
                 cutInString>>

(***************************************************************************)
(* response.data.on('data') (lines 85-105) for a chunk of k characters.    *)
(***************************************************************************)
Data(k) ==
  /\ pc = "streaming"
  /\ chunkCount < MaxChunks
  /\ pos + k <= Len(input)
  /\ \E processed \in {processStreamBuffer(buffer \o SubSeq(input, pos + 1, pos + k))} :
     LET base == pos - Len(buffer)
         text == IF Len(processed.text) > 0 THEN responseText \o processed.text
                                            ELSE responseText
     IN
     /\ chunkCount' = chunkCount + 1
     /\ pos' = pos + k
     /\ responseText' = text
     /\ events' = events
          \o (IF Len(processed.text) > 0
                THEN <<TextChunk(processed.text, text, chunkCount + 1, FALSE)>>
                ELSE <<>>)
          \o DispatchErrors(processed)
     /\ sse' = OnChunks(events')
     /\ tasks' = DispatchTasks(processed, base + processed.start)
     /\ buffer' = processed.remainingBuffer
     /\ extracted' = ExtractedAfter(processed, base, "data")
     /\ cutInString' = (cutInString \/ (processed.outcome = "open" /\ processed.inString))
  /\ UNCHANGED serviceVars
  /\ UNCHANGED <<pieces, input, pc, endpoint, upstream, httpStatus, endedAt, cacheKeys,
                 fin, generic, completeResponse, batch>>

(***************************************************************************)
(* The tail of the 'end' handler (lines 135-158): image_keys when there    *)
(* are keys, completion, resolve; then generateContent's continuation.     *)
(***************************************************************************)
FinishChunks(keys, text) ==
  (IF Len(keys) > 0 THEN <<ImageKeysChunk(keys)>> ELSE <<>>)
    \o <<CompletionChunk(chunkCount, Len(text), Len(keys))>>

Finish(evs, keys, text) ==
  LET all == evs \o FinishChunks(keys, text) IN
  /\ events' = all
  /\ pc' = "resolved"
  /\ Resolve(all, keys, text)

\* The first image from index i on whose handleImageData call reaches its
\* await; the calls before it are rejected at once and caught (line 376).
RECURSIVE NextSavable(_, _)
NextSavable(images, i) ==
  IF i > Len(images) \/ Savable(images[i]) THEN i
  ELSE NextSavable(images, i + 1)

\* processCompleteResponse from image i on: start the next save and wait,
\* or return, after which the handler emits 'complete' and finishes.
ContinueComplete(res, i, evs, keys, text, tks, src) ==
  LET j == NextSavable(res.images, i) IN
  IF j <= Len(res.images)
    THEN /\ tasks' = Append(tks, NewTask("generic", src, res.images[j]))
         /\ fin' = [text |-> res.text, images |-> res.images, idx |-> j]
         /\ events' = evs
         /\ sse' = OnChunks(evs)
         /\ pc' = "finalizing"
         /\ UNCHANGED <<httpStatus, endedAt, completeResponse, batch>>
    ELSE /\ tasks' = tks
         /\ fin' = NoFin
         /\ Finish(Append(evs, CompleteChunk([text |-> res.text, images |-> res.images],
                                             chunkCount)),
                   keys, text)

(***************************************************************************)
(* response.data.on('end') (lines 107-163) up to its first await that      *)
(* waits for a save.  The final pass runs processStreamBuffer on the       *)
(* buffer and then tryParseCompleteJSON on the SAME buffer.  An exception  *)
(* in the handler is caught and rejects the promise (lines 160-162).       *)
(***************************************************************************)
End ==
  /\ pc = "streaming"
  /\ pos = Len(input)
  /\ \E processed \in {processStreamBuffer(buffer)},
        finalData \in {tryParseCompleteJSON(buffer)} :
     LET base == pos - Len(buffer)
         nonblank == Len(Trim(buffer)) > 0
         text == IF nonblank /\ Len(processed.text) > 0
                   THEN responseText \o processed.text ELSE responseText
         evs == IF nonblank
                  THEN events
                    \o (IF Len(processed.text) > 0
                          THEN <<TextChunk(processed.text, text, chunkCount, TRUE)>>
                          ELSE <<>>)
                    \o DispatchErrors(processed)
                  ELSE events
         tks == IF nonblank THEN DispatchTasks(processed, base + processed.start)
                            ELSE tasks
         lead == Len(buffer) - Len(TrimLeft(buffer))
         res == extractRecursive(finalData.v, [text |-> <<>>, images |-> <<>>])
     IN
     /\ responseText' = text
     /\ extracted' = IF nonblank THEN ExtractedAfter(processed, base, "end") ELSE extracted
     /\ IF nonblank /\ finalData.thrown
          THEN /\ generic' = generic
               /\ tasks' = tks
               /\ fin' = fin
               /\ events' = evs
               /\ pc' = "rejected"
               /\ RejectWith(OnChunks(evs), FinalErrorMessage)
        ELSE IF nonblank /\ finalData.ok /\ Truthy(finalData.v)
          THEN /\ generic' = [present |-> TRUE, s |-> base + lead + 1,
                              e |-> base + Len(TrimRight(buffer))]
               /\ ContinueComplete(res, 1, evs, cacheKeys, text, tks, base + lead + 1)
          ELSE /\ generic' = generic
               /\ tasks' = tks
               /\ fin' = fin
               /\ Finish(evs, cacheKeys, text)
  /\ upstream' = "ended"
  /\ UNCHANGED serviceVars
  /\ UNCHANGED <<pieces, input, pos, endpoint, buffer, cacheKeys, chunkCount,
                 cutInString>>

(***************************************************************************)
(* response.data.on('error') (lines 165-167): reject, nothing else; the    *)
(* caller's catch runs.                                                    *)
(***************************************************************************)
\* The handler that logs the error and leaves the promise pending.
StreamErrorSwallowed ==
  /\ pc = "streaming"
  /\ upstream = "open"
  /\ upstream' = "errored"
  /\ UNCHANGED serviceVars
  /\ UNCHANGED <<pieces, input, pos, pc, endpoint, httpStatus, sse, endedAt, buffer,
                 responseText, cacheKeys, chunkCount, events, tasks, fin, extracted,
                 generic, cutInString, completeResponse, batch>>

StreamError ==
  /\ pc = "streaming"
  /\ upstream = "open"
  /\ upstream' = "errored"
  /\ pc' = "rejected"
  /\ Reject(StreamErrorMessage)
  /\ UNCHANGED serviceVars
  /\ UNCHANGED <<pieces, input, pos, endpoint, buffer, responseText, cacheKeys,
                 chunkCount, events, tasks, fin, extracted, generic, cutInString>>

(***************************************************************************)
(* cacheService.saveImage of task i completes.  handleImageData pushes the *)
(* key (line 404) and returns it.  For a task processStreamBuffer          *)
(* dispatched the .then callback calls onChunk with the 'image' chunk; for *)
(* a task of processCompleteResponse the loop goes on.                     *)
(***************************************************************************)
SaveOk(i) ==
  /\ i \in 1..Len(tasks)
  /\ tasks[i].st = "saving"
  /\ cacheKeys' = Append(cacheKeys, i)
  /\ IF tasks[i].origin = "shaped"
       THEN /\ tasks' = [tasks EXCEPT ![i].st = "saved"]
            /\ events' = Append(events, ImageChunk(i))
            /\ sse' = OnChunks(events')
            /\ UNCHANGED <<pc, fin, httpStatus, endedAt, completeResponse, batch>>
       ELSE ContinueComplete(
              [text |-> fin.text, images |-> [fin.images EXCEPT ![fin.idx].key = i]],
              fin.idx + 1, events, Append(cacheKeys, i), responseText,
              [tasks EXCEPT ![i].st = "saved"], tasks[i].src)
  /\ UNCHANGED serviceVars
  /\ UNCHANGED <<pieces, input, pos, endpoint, upstream, buffer, responseText,
                 chunkCount, extracted, generic, cutInString>>

\* handleImageData with cacheKeys.push before the await: the key of a save
\* that fails is in the list all the same.
SaveFailKeepsKey(i) ==
  /\ i \in 1..Len(tasks)
  /\ tasks[i].st = "saving"
  /\ cacheKeys' = Append(cacheKeys, i)
  /\ IF tasks[i].origin = "shaped"
       THEN /\ tasks' = [tasks EXCEPT ![i].st = "failed"]
            /\ events' = Append(events, ErrorChunk(SaveFailedMessage))
            /\ sse' = OnChunks(events')
            /\ UNCHANGED <<pc, fin, httpStatus, endedAt, completeResponse, batch>>
       ELSE ContinueComplete(
              [text |-> fin.text, images |-> fin.images],
              fin.idx + 1, events, Append(cacheKeys, i), responseText,
              [tasks EXCEPT ![i].st = "failed"], tasks[i].src)
  /\ UNCHANGED serviceVars
  /\ UNCHANGED <<pieces, input, pos, endpoint, upstream, buffer, responseText,
                 chunkCount, extracted, generic, cutInString>>

(***************************************************************************)
(* cacheService.saveImage of task i fails.  handleImageData rethrows; the  *)
(* .catch of processStreamBuffer calls onChunk with an 'error' chunk, the  *)
(* catch of processCompleteResponse only logs.                             *)
(***************************************************************************)
SaveFail(i) ==
  /\ i \in 1..Len(tasks)
  /\ tasks[i].st = "saving"
  /\ IF tasks[i].origin = "shaped"
       THEN /\ tasks' = [tasks EXCEPT ![i].st = "failed"]
            /\ events' = Append(events, ErrorChunk(SaveFailedMessage))
            /\ sse' = OnChunks(events')
            /\ UNCHANGED <<pc, fin, httpStatus, endedAt, completeResponse, batch>>
       ELSE ContinueComplete(
              [text |-> fin.text, images |-> fin.images],
              fin.idx + 1, events, cacheKeys, responseText,
              [tasks EXCEPT ![i].st = "failed"], tasks[i].src)
  /\ UNCHANGED serviceVars
  /\ UNCHANGED <<pieces, input, pos, endpoint, upstream, buffer, responseText,
                 cacheKeys, chunkCount, extracted, generic, cutInString>>

Next ==
  \/ \E prompt \in Prompts : StreamRoute(prompt)
  \/ \E prompt \in Prompts : BatchRoute(prompt)
  \/ Response
  \/ RequestFailed
  \/ \E k \in 1..(Len(input) - pos) : Data(k)
  \/ End
  \/ StreamError
  \/ \E i \in 1..Len(tasks) : SaveOk(i)
  \/ \E i \in 1..Len(tasks) : SaveFail(i)

Spec == Init /\ [][Next]_vars

\* What the code's scheduling guarantees: a save that was started completes
\* or fails, and the request is answered or fails (axios gives up after its
\* timeout, line 75).  What the upstream stream delivers is up to the
\* upstream.
FairSpec ==
  /\ Init /\ [][Next]_vars
  /\ WF_vars(\E i \in 1..Len(tasks) : SaveOk(i) \/ SaveFail(i))
  /\ WF_vars(Response \/ RequestFailed)

(***************************************************************************)
(* Vocabulary of the properties.                                           *)
(***************************************************************************)
\* Piece j of the body occupies StartOf(j)..EndOf(j).
EndOf(j) == Len(Concat(SubSeq(pieces, 1, j)))
StartOf(j) == EndOf(j - 1) + 1

\* The text a piece carries in its text parts.
PieceText(p) ==
  IF p = Hello THEN <<"H">> ELSE IF p = Quoted THEN QuotedText ELSE <<>>

\* The spans of the extractions, in the order they were made.
Spans(ex) == [i \in 1..Len(ex) |-> <<ex[i].s, ex[i].e>>]

\* The content of the text chunks of evs, in order.
RECURSIVE TextContents(_)
TextContents(evs) ==
  IF Len(evs) = 0 THEN <<>>
  ELSE (IF Head(evs).type = "text" THEN <<Head(evs).content>> ELSE <<>>)
         \o TextContents(Tail(evs))

CountType(evs, t) == Cardinality({i \in 1..Len(evs) : evs[i].type = t})

\* The spans a session extracts when the whole body arrives as one chunk:
\* one 'data' event, then the final pass of 'end' on a non-blank buffer.
SingleChunkSpans(body) ==
  LET d == processStreamBuffer(body)
      rest == IF Len(body) > 0 THEN d.remainingBuffer ELSE body
      base == Len(body) - Len(rest)
      e == processStreamBuffer(rest)
  IN
  (IF Len(body) > 0 /\ d.outcome = "extracted" THEN <<<<d.start, d.end>>>> ELSE <<>>)
    \o (IF Len(Trim(rest)) > 0 /\ e.outcome = "extracted"
          THEN <<<<base + e.start, base + e.end>>>> ELSE <<>>)

\* C1: every chunking of a body yields the spans the single chunk yields.
C1_ChunkSplitInvariance ==
  pc = "resolved" => Spans(extracted) = SingleChunkSpans(input)

\* C2: a body of N well-formed content objects and nothing else has had N
\* objects extracted when the session completes.
C2_AllObjectsExtracted ==
  (pc = "resolved" /\ \A j \in 1..Len(pieces) : pieces[j] \in {Hello, Quoted, Image, Unshaped})
    => Len(extracted) = Len(pieces)

\* C3: an object whose string holds an escaped quote, a brace and an
\* escaped backslash is extracted whole, in the wire shape (Quoted) and bare
\* (Unshaped).  Wherever it stands in the body, a span that starts at its
\* opening brace ends at its real closing brace; the text chunk of the
\* shaped object and the 'complete' chunk of a walk of the bare object carry
\* the text unchanged; when the object is the first piece it has been
\* extracted as soon as the data events have delivered all of it.
C3_QuotedExtractedWhole ==
  /\ \A i \in 1..Len(extracted) : \A j \in 1..Len(pieces) :
       (pieces[j] \in {Quoted, Unshaped} /\ extracted[i].s = StartOf(j))
         => /\ extracted[i].e = EndOf(j)
            /\ pieces[j] = Quoted
                 => /\ extracted[i].ev \in 1..Len(events)
                    /\ events[extracted[i].ev].type = "text"
                    /\ events[extracted[i].ev].content = QuotedText
  /\ \A j \in 1..Len(pieces) : \A i \in 1..Len(events) :
       (pieces[j] = Unshaped /\ generic.present /\ generic.s = StartOf(j)
          /\ events[i].type = "complete")
         => (generic.e = EndOf(j) /\ events[i].data.text = QuotedText)
  /\ (Len(pieces) >= 1 /\ pieces[1] \in {Quoted, Unshaped} /\ pos >= Len(pieces[1]))
       => (Len(extracted) >= 1 /\ extracted[1].s = 1 /\ extracted[1].e = Len(pieces[1]))

\* C3's case: the object was extracted after a data event had ended inside
\* its string literal.
C3_Witness ==
  /\ pieces = <<Quoted>>
  /\ cutInString
  /\ Len(extracted) = 1
  /\ events[extracted[1].ev].content = QuotedText

\* C4: no 'image' chunk and no image-save 'error' chunk is delivered after
\* the 'completion' chunk.
C4_ImagesPrecedeCompletion ==
  \A i \in 1..Len(events) : \A j \in 1..Len(events) :
    (i < j /\ events[i].type = "completion") => events[j].type \notin {"image", "error"}

\* C5: a session that has ended, by 'end' or by 'error', has emitted
\* 'completion' exactly once.
C5_CompletionExactlyOnce ==
  pc \in {"resolved", "rejected"} => CountType(events, "completion") = 1

\* C6: once the data events have delivered an object with a blockReason,
\* there is exactly one 'error' chunk carrying the reason and the session
\* has ended.
C6_BlockedYieldsOneError ==
  (Len(pieces) >= 1 /\ pieces[1] = Blocked /\ pos >= Len(Blocked))
    => /\ Cardinality({i \in 1..Len(events) :
                         /\ events[i].type = "error"
                         /\ events[i].error = BlockedMessage(BlockReason)}) = 1
       /\ pc # "streaming"

\* C7: when a malformed span is followed by one text object, the session
\* completes with that object extracted and its text emitted.
C7_MalformedSpanSkipped ==
  (pc = "resolved" /\ Len(pieces) = 2 /\ pieces[1] = Malformed /\ pieces[2] \in {Hello, Quoted})
    => \E i \in 1..Len(extracted) :
         /\ extracted[i].s = StartOf(2)
         /\ extracted[i].ev \in 1..Len(events)
         /\ events[extracted[i].ev].content = PieceText(pieces[2])

\* C8: no object is processed by both walks with an effect: an object whose
\* extraction emitted a text chunk or dispatched an image task is not the
\* object of the generic walk, and no object has its image persisted by two
\* tasks.
C8_WalksDisjoint ==
  /\ generic.present =>
       \A i \in 1..Len(extracted) :
         extracted[i].s = generic.s
           => /\ extracted[i].ev = 0
              /\ \A t \in 1..Len(tasks) : tasks[t].src # generic.s
  /\ \A i \in 1..Len(tasks) : \A j \in 1..Len(tasks) :
       (i # j) => tasks[i].src # tasks[j].src

\* The text objects that have been extracted, as the pieces they are, in the
\* order of the body.
RECURSIVE ExtractedTexts(_)
ExtractedTexts(j) ==
  IF j > Len(pieces) THEN <<>>
  ELSE (IF Len(PieceText(pieces[j])) > 0
           /\ \E i \in 1..Len(extracted) : extracted[i].s = StartOf(j)
          THEN <<PieceText(pieces[j])>> ELSE <<>>)
         \o ExtractedTexts(j + 1)

\* C9: the text chunks are the texts of the extracted text objects in the
\* order of the body, each once, whatever the persistence tasks do.
C9_TextInStreamOrder ==
  /\ TextContents(events) = ExtractedTexts(1)
  /\ \A i \in 1..Len(extracted) : \A j \in 1..Len(extracted) :
       (i < j) => extracted[i].e < extracted[j].s

\* C9's case: two text objects with an image object between them, the
\* image saved and announced before the second text.
C9_Witness ==
  /\ pieces = <<Hello, Image, Hello>>
  /\ Len(events) = 3
  /\ events[1].type = "text" /\ events[2].type = "image" /\ events[3].type = "text"
  /\ Len(extracted) = 3

\* The concatenation of a sequence of texts.
RECURSIVE Flatten(_)
Flatten(ts) == IF Len(ts) = 0 THEN <<>> ELSE Head(ts) \o Flatten(Tail(ts))

\* C10: a resolved batch call holds a result of the batch shape whose text
\* is the concatenation, in order, of the content of the text chunks of
\* the session.
C10_BatchTextIsStreamText ==
  batch.state = "resolved"
    => /\ batch.shape = "batch"
       /\ batch.text = Flatten(TextContents(events))

\* C10's case: a resolved batch call over a session with two different
\* text chunks.
C10_Witness ==
  /\ batch.state = "resolved"
  /\ TextContents(events) = <<<<"H">>, QuotedText>>

\* C11: the images list of a resolved batch result holds the key of every
\* image persisted in the session, each exactly once, whenever the saves
\* complete relative to the 'end' event.
C11_BatchImagesComplete ==
  batch.state = "resolved"
    => \A t \in 1..Len(tasks) :
         tasks[t].st = "saved"
           => Cardinality({i \in 1..Len(batch.images) : batch.images[i].key = t}) = 1

\* The keys a consumer can see: cacheKeys, the 'image' and 'image_keys'
\* chunks, the images of the 'complete' chunk, the events of the SSE
\* response and the batch result.
VisibleKeys ==
  {cacheKeys[i] : i \in 1..Len(cacheKeys)}
    \cup {events[i].key : i \in {j \in 1..Len(events) : events[j].type = "image"}}
    \cup UNION {{events[i].keys[k] : k \in 1..Len(events[i].keys)} :
                 i \in {j \in 1..Len(events) : events[j].type = "image_keys"}}
    \cup UNION {{events[i].data.images[k].key : k \in 1..Len(events[i].data.images)} \ {0} :
                 i \in {j \in 1..Len(events) : events[j].type = "complete"}}
    \cup {sse[i].key : i \in {j \in 1..Len(sse) : sse[j].event = "image"}}
    \cup UNION {{sse[i].keys[k] : k \in 1..Len(sse[i].keys)} :
                 i \in {j \in 1..Len(sse) : sse[j].event = "images"}}
    \cup UNION {{sse[i].cacheKeys[k] : k \in 1..Len(sse[i].cacheKeys)} :
                 i \in {j \in 1..Len(sse) : sse[j].event = "final" /\ sse[j].status = "final"}}
    \cup {batch.images[i].key : i \in 1..Len(batch.images)}

\* C12: every key a consumer can see is the key of a save that has
\* completed successfully; a key whose save failed or is in progress is
\* visible nowhere.
C12_KeysVisibleAfterSave ==
  \A k \in VisibleKeys : k \in 1..Len(tasks) /\ tasks[k].st = "saved"

\* C12's case: one image saved and announced, the save of another failed,
\* and the session completed with the keys list of the one.
C12_Witness ==
  /\ Len(tasks) = 2
  /\ tasks[1].st = "saved" /\ tasks[2].st = "failed"
  /\ pc = "resolved"
  /\ \E i \in 1..Len(events) : events[i].type = "image_keys" /\ events[i].keys = <<1>>

\* C13: every failed save has its one 'error' chunk, and a save failure
\* does not end the session: the session is not rejected by it and its
\* 'completion' chunk reports success.
C13_SaveFailureOneError ==
  /\ Cardinality({i \in 1..Len(events) :
                    events[i].type = "error" /\ events[i].error = SaveFailedMessage})
       = Cardinality({t \in 1..Len(tasks) : tasks[t].st = "failed"})
  /\ \A i \in 1..Len(events) : events[i].type = "completion" => events[i].success

\* C14: once the upstream stream has emitted 'error', the promise is
\* rejected; the stream route has written the 'error' event, right after it
\* the 'final' event of status 'error', and ended the response; the batch
\* call has failed.
C14_TransportErrorFatal ==
  upstream = "errored"
    => /\ pc = "rejected"
       /\ endpoint = "stream"
            => /\ endedAt >= 2
               /\ sse[endedAt - 1] = [event |-> "error", error |-> StreamErrorMessage]
               /\ sse[endedAt] = [event |-> "final", status |-> "error",
                                  error |-> StreamErrorMessage]
       /\ endpoint = "batch"
            => /\ batch.state = "rejected"
               /\ httpStatus = 500

\* C14's case: the transport error arrives after a text event was streamed.
C14_Witness ==
  /\ upstream = "errored"
  /\ endpoint = "stream"
  /\ endedAt = Len(sse)
  /\ \E i \in 1..Len(sse) : sse[i].event = "text"

\* C15: a session whose response stream has started does not stay in the
\* streaming state forever: when the upstream delivers nothing more, the
\* session still leaves it.
C15_StallEndsSession ==
  (pc = "streaming") ~> (pc # "streaming")

\* C16: once the promise is resolved or rejected, onChunk is not called
\* again and nothing more is written to the SSE response.
C16_TerminalAcceptsNothing ==
  [][(pc \in {"resolved", "rejected"}) => (events' = events /\ sse' = sse)]_vars

\* C17: a call of processStreamBuffer that extracts nothing changes
\* nothing.  A 'data' event without an extraction leaves the buffer as it
\* was plus the chunk, emits no chunk and starts no save; the final pass of
\* 'end' without an extraction leaves the buffer and the text alone, emits
\* no text chunk and starts no save of its own.
C17_FailedExtractionKeepsBuffer ==
  [][/\ (chunkCount' = chunkCount + 1 /\ extracted' = extracted)
          => /\ buffer' = buffer \o SubSeq(input, pos + 1, pos')
             /\ events' = events
             /\ tasks' = tasks
             /\ responseText' = responseText
     /\ (upstream = "open" /\ upstream' = "ended" /\ extracted' = extracted)
          => /\ buffer' = buffer
             /\ responseText' = responseText
             /\ TextContents(events') = TextContents(events)
             /\ \A t \in (Len(tasks) + 1)..Len(tasks') : tasks'[t].origin = "generic"
    ]_vars

\* C17's case: the extractor threw on the first object in the first data
\* event, and a second data event has found the buffer whole.
C17_Witness ==
  /\ pieces = <<Blocked, Hello>>
  /\ chunkCount = 2
  /\ pos = Len(input)
  /\ buffer = input
  /\ events = <<>>

\* C18: on the stream route, for a request that passed validation,
\* 'connected' is the first event; 'final' is written once, as the last
\* event before the response ends, and the response ends exactly when the
\* promise has settled, resolved or rejected.
C18_SseFraming ==
  /\ (endpoint = "stream" /\ pc = "refused") => sse = <<>>
  /\ (endpoint = "stream" /\ pc \notin {"idle", "refused"})
       => /\ Len(sse) >= 1
          /\ sse[1] = ConnectedEvent
          /\ (endedAt > 0) <=> (pc \in {"resolved", "rejected"})
          /\ endedAt > 0 => sse[endedAt].event = "final"
          /\ Cardinality({i \in 1..Len(sse) : sse[i].event = "final"})
               = IF endedAt > 0 THEN 1 ELSE 0

\* C18's case: a response that streamed a text and an image event on the
\* success path and was ended by 'final'.
C18_Witness ==
  /\ endpoint = "stream"
  /\ pc = "resolved"
  /\ endedAt = Len(sse)
  /\ sse[endedAt].status = "final"
  /\ \E i \in 1..Len(sse) : sse[i].event = "text"
  /\ \E i \in 1..Len(sse) : sse[i].event = "image"

\* C19: an extracted object with two inlineData parts has dispatched two
\* calls of handleImageData.
C19_OneSavePerImagePart ==
  \A j \in 1..Len(pieces) :
    (pieces[j] = TwoImages /\ \E i \in 1..Len(extracted) : extracted[i].s = StartOf(j))
      => Cardinality({t \in 1..Len(tasks) :
                        tasks[t].origin = "shaped" /\ tasks[t].src = StartOf(j)}) = 2

\* C20: the imageCount of the 'completion' chunk is the number of images
\* persisted in the session and the number of 'image' chunks delivered,
\* whenever the saves complete.
C20_ImageCountAccurate ==
  \A i \in 1..Len(events) :
    events[i].type = "completion"
      => /\ events[i].imageCount = Cardinality({t \in 1..Len(tasks) : tasks[t].st = "saved"})
         /\ events[i].imageCount = CountType(events, "image")
         /\ events[i].imageCount = Len(cacheKeys)

\* C21: a batch call on a body that holds an object with a blockReason does
\* not resolve.
C21_BatchBlockedFails ==
  (endpoint = "batch" /\ batch.state = "resolved")
    => \A j \in 1..Len(pieces) : pieces[j] # Blocked

\* C22: a body of unshaped objects produces no chunk but the 'completion'
\* of the session, whether the objects are extracted by a data event or
\* left to the end handler.
C22_UnshapedSilent ==
  (\A j \in 1..Len(pieces) : pieces[j] = Unshaped)
    => \A i \in 1..Len(events) : events[i].type = "completion"

\* C23: after a data event the buffer is empty or begins with '{'.
C23_BufferStartsAtBrace ==
  (pc = "streaming" /\ chunkCount > 0)
    => (buffer = <<>> \/ buffer[1] = LB)

\* C24: when the upstream has ended with a residual buffer that is not
\* JSON, the session is resolved, not rejected: it has emitted one
\* 'completion' chunk with success true, the batch call has resolved and
\* the stream route has written the 'final' event of the success path.
C24_ResidualNonFatal ==
  (upstream = "ended" /\ Len(Trim(buffer)) > 0 /\ ~JSONParse(Trim(buffer)).ok)
    => /\ pc = "resolved"
       /\ CountType(events, "completion") = 1
       /\ \A i \in 1..Len(events) : events[i].type = "completion" => events[i].success
       /\ endpoint = "batch" => batch.state = "resolved"
       /\ endpoint = "stream" => (endedAt > 0 /\ sse[endedAt].status = "final")

\* C24's case: the separator after the last object is what the upstream
\* left behind.
C24_Witness ==
  /\ pieces = <<Hello, Noise>>
  /\ upstream = "ended"
  /\ buffer = Noise
  /\ pc = "resolved"

\* C25: the accumulated of every text chunk is the concatenation of the
\* content of the text chunks up to it; the textLength of 'completion' is
\* the length of that text, and the text of the resolved result, as the
\* 'final' event shows it, is that text.
C25_RunningText ==
  /\ \A i \in 1..Len(events) :
       events[i].type = "text"
         => events[i].accumulated = Flatten(TextContents(SubSeq(events, 1, i)))
  /\ \A i \in 1..Len(events) :
       events[i].type = "completion"
         => events[i].textLength = Len(Flatten(TextContents(events)))
  /\ pc = "resolved" => responseText = Flatten(TextContents(events))
  /\ (pc = "resolved" /\ endpoint = "stream")
       => sse[endedAt].text = Flatten(TextContents(events))

\* C25's case: a resolved stream session with two different text chunks.
C25_Witness ==
  /\ endpoint = "stream"
  /\ pc = "resolved"
  /\ TextContents(events) = <<<<"H">>, QuotedText>>

\* cleaned.lastIndexOf(c), 0 when there is none.
RECURSIVE LastIndexOfFrom(_, _, _)
LastIndexOfFrom(s, c, i) ==
  IF i = 0 THEN 0 ELSE IF s[i] = c THEN i ELSE LastIndexOfFrom(s, c, i - 1)

\* C30: for the buffer of the session, when the trimmed buffer is not JSON
\* but its part from the first '{' to the last '}' is, tryParseCompleteJSON
\* returns the value of that part; it returns null when there is no such
\* part or the part is not JSON.
C30_RepairPath ==
  LET cleaned == Trim(buffer)
      start == IndexOf(cleaned, LB)
      end == LastIndexOfFrom(cleaned, RB, Len(cleaned))
      potential == JSONParse(SubSeq(cleaned, start, end))
      returned == tryParseCompleteJSON(buffer)
  IN
  (Len(cleaned) > 0 /\ ~JSONParse(cleaned).ok)
    => IF start # 0 /\ end # 0 /\ end > start /\ potential.ok
         THEN returned.ok /\ returned.v = potential.v
         ELSE ~returned.ok

(***************************************************************************)
(* The session variables while no generate request is being served: the    *)
(* cache route and the PDF service do not touch them.                      *)
(***************************************************************************)
sessionVars ==
  <<pieces, input, pos, pc, endpoint, upstream, httpStatus, sse, endedAt, buffer,
    responseText, cacheKeys, chunkCount, events, tasks, fin, extracted, generic,
    cutInString, completeResponse, batch>>

SessionIdle ==
  /\ pieces = <<>>
  /\ input = <<>>
  /\ pos = 0
  /\ pc = "idle"
  /\ endpoint = "none"
  /\ upstream = "none"
  /\ httpStatus = 0
  /\ sse = <<>>
  /\ endedAt = 0
  /\ buffer = <<>>
  /\ responseText = <<>>
  /\ cacheKeys = <<>>
  /\ chunkCount = 0
  /\ events = <<>>
  /\ tasks = <<>>
  /\ fin = NoFin
  /\ extracted = <<>>
  /\ generic = NoGeneric
  /\ cutInString = FALSE
  /\ completeResponse = NoResponse
  /\ batch = Pending

(***************************************************************************)
(* GET /api/cache/image/:key.                                              *)
(***************************************************************************)
\* The image files a cache directory may hold: two keys, each in two size
\* variants, with the four extensions of the route's mimeTypes table.
CacheFiles ==
  { [key |-> 1, size |-> "original", ext |-> ".png"],
    [key |-> 1, size |-> "thumbnail", ext |-> ".jpg"],
    [key |-> 2, size |-> "original", ext |-> ".gif"],
    [key |-> 2, size |-> "thumbnail", ext |-> ".webp"] }

\* The requests: a cached or an unknown key, with or without ?size=.
ImageRequests ==
  [key : {1, 2, 3}, size : {"none", "original", "thumbnail"}]

NotFound == [key |-> 0, size |-> "none", ext |-> ""]

\* cacheService.getImagePath(key, size): the path of the size variant of
\* the key, the original when no size is passed, null when there is none.
getImagePath(index, key, size) ==
  LET variant == IF size = "none" THEN "original" ELSE size
      found == {f \in index : f.key = key /\ f.size = variant}
  IN IF found = {} THEN NotFound ELSE CHOOSE f \in found : TRUE

\* The Content-Type res.sendFile gives a file with this extension.
SendFileType(ext) ==
  CASE ext = ".png" -> "image/png"
    [] ext = ".jpg" -> "image/jpeg"
    [] ext = ".jpeg" -> "image/jpeg"
    [] ext = ".gif" -> "image/gif"
    [] ext = ".webp" -> "image/webp"
    [] OTHER -> "application/octet-stream"

\* The mimeTypes table of the second registration, 'image/png' by default.
mimeTypes(ext) ==
  CASE ext = ".png" -> "image/png"
    [] ext = ".jpg" -> "image/jpeg"
    [] ext = ".jpeg" -> "image/jpeg"
    [] ext = ".gif" -> "image/gif"
    [] ext = ".webp" -> "image/webp"
    [] OTHER -> "image/png"

\* The first registration: the size of the query is not read.  Its 404
\* body is written in Chinese in the source; it is transliterated here.
FirstImageHandler(index, req) ==
  LET imagePath == getImagePath(index, req.key, "none")
  IN IF imagePath = NotFound
       THEN [status |-> 404, error |-> "tu pian bu cun zai"]
       ELSE [status |-> 200, file |-> imagePath,
             contentType |-> SendFileType(imagePath.ext)]

\* The second registration: size is the query's, 'original' by default.
SecondImageHandler(index, req) ==
  LET size == IF req.size = "none" THEN "original" ELSE req.size
      imagePath == getImagePath(index, req.key, size)
  IN IF imagePath = NotFound
       THEN [status |-> 404, error |-> "Image not found"]
       ELSE [status |-> 200, file |-> imagePath,
             contentType |-> mimeTypes(imagePath.ext)]

\* The handlers of the path in the order app.get registered them.
ImageHandlers == <<"first", "second">>

RunImageHandler(name, index, req) ==
  IF name = "first" THEN FirstImageHandler(index, req)
  ELSE SecondImageHandler(index, req)

\* The router calls the first handler registered for the path; a later
\* one runs only when the earlier one calls next(), which neither does.
CacheImageRoute ==
  /\ reply = NoReply
  /\ request # NoRequest
  /\ reply' = RunImageHandler(Head(ImageHandlers), cacheIndex, request)
  /\ UNCHANGED <<cacheIndex, request>>
  /\ UNCHANGED pdfVars
  /\ UNCHANGED sessionVars

CacheInit ==
  /\ SessionIdle
  /\ PdfIdle
  /\ cacheIndex \in SUBSET CacheFiles
  /\ request \in ImageRequests
  /\ reply = NoReply

CacheNext == CacheImageRoute

CacheSpec == CacheInit /\ [][CacheNext]_vars

\* C26: a request with a size parameter is answered with the file of that
\* size variant of the key and the Content-Type of its extension, and with
\* 404 when the cache has no such variant.
C26_SizeVariantServed ==
  (reply # NoReply /\ request.size # "none")
    => LET imagePath == getImagePath(cacheIndex, request.key, request.size)
       IN IF imagePath = NotFound
            THEN reply.status = 404
            ELSE /\ reply.status = 200
                 /\ reply.file = imagePath
                 /\ reply.contentType = mimeTypes(imagePath.ext)

(***************************************************************************)
(* services/pdfService.js: extractPDF, processExtractResult and ocrPDF.    *)
(***************************************************************************)
MaxElements == 3

\* The files structuredData.json names in filePaths.
FigureFile == [dir |-> "figures", name |-> "fileoutpart0.png"]
CsvFile == [dir |-> "tables", name |-> "fileoutpart1.csv"]
XlsxFile == [dir |-> "tables", name |-> "fileoutpart2.xlsx"]
MissingFile == [dir |-> "figures", name |-> "fileoutpart9.png"]
StructuredData == [dir |-> "", name |-> "structuredData.json"]

\* filePath.includes(word), for the directory words the code asks for.
Includes(filePath, word) == filePath.dir = word

\* element.Path.endsWith('.csv')
EndsWithCsv(elementPath) == elementPath \in {"//Document/Table.csv"}

\* The elements of structuredData.json: filePaths is <<>> when the element
\* has none, Text is "" when it has none.
Figure == [filePaths |-> <<FigureFile>>, Text |-> "", Path |-> "//Document/Figure"]
TableCsv == [filePaths |-> <<CsvFile>>, Text |-> "", Path |-> "//Document/Table.csv"]
TableXlsx == [filePaths |-> <<XlsxFile>>, Text |-> "", Path |-> "//Document/Table"]
Unpacked == [filePaths |-> <<MissingFile>>, Text |-> "", Path |-> "//Document/Figure[2]"]
Paragraph == [filePaths |-> <<>>, Text |-> "P", Path |-> "//Document/P"]
Blank == [filePaths |-> <<>>, Text |-> "", Path |-> "//Document/Sect"]

ElementKinds == {Figure, TableCsv, TableXlsx, Unpacked, Paragraph, Blank}

RECURSIVE SeqsUpTo(_, _)
SeqsUpTo(S, n) ==
  IF n = 0 THEN {<<>>}
  ELSE LET shorter == SeqsUpTo(S, n - 1)
       IN shorter \cup {Append(q, x) : q \in shorter, x \in S}

\* The archives the extract job may produce: without structuredData.json,
\* or with one of up to MaxElements elements.
Zips ==
  {NoZip} \cup [data : {"ok"}, elements : SeqsUpTo(ElementKinds, MaxElements)]

\* zip.getEntries(): the names of the entries of the archive.
zipEntries(z) ==
  IF z.data = "ok"
    THEN {StructuredData} \cup
         ({z.elements[i].filePaths[1] :
             i \in {j \in 1..Len(z.elements) : z.elements[j].filePaths # <<>>}}
          \ {MissingFile})
    ELSE {}

\* The awaited calls of the PDF services SDK, in the order of the code.
SdkSteps == {"upload", "submit", "getJobResult", "getContent"}

AfterSdkStep(step) ==
  CASE step = "upload" -> "submit"
    [] step = "submit" -> "getJobResult"
    [] step = "getJobResult" -> "getContent"
    [] step = "getContent" -> "write"

\* The elements processExtractResult pushes.
ImageElement(key) == [type |-> "image", key |-> key, format |-> "none", text |-> ""]
TableElement(key, isCSV) ==
  [type |-> "table", key |-> key, format |-> IF isCSV THEN "csv" ELSE "xlsx",
   text |-> ""]
TextElement(text) == [type |-> "text", key |-> 0, format |-> "none", text |-> text]

\* elements.filter(e => e.type === type).length
CountElements(elements, type) ==
  Cardinality({i \in 1..Len(elements) : elements[i].type = type})

\* The result whose totalElements counts the elements of structuredData.
BuildResultOfInput(elements) ==
  [returned |-> FALSE,
   elements |-> elements,
   metadata |-> [totalElements |-> Len(zip.elements),
                 textElements |-> CountElements(elements, "text"),
                 imageElements |-> CountElements(elements, "image"),
                 tableElements |-> CountElements(elements, "table")]]

\* The object processExtractResult returns.
BuildResult(elements) ==
  [returned |-> FALSE,
   elements |-> elements,
   metadata |-> [totalElements |-> Len(elements),
                 textElements |-> CountElements(elements, "text"),
                 imageElements |-> CountElements(elements, "image"),
                 tableElements |-> CountElements(elements, "table")]]

\* uuidv4(): a value no earlier call returned.
uuidv4 == nextKey + 1

\* How the pipe into the write stream may end: 'finish', 'error' before
\* the file exists, 'error' with a part of the file on disk.
WriteOutcomes == {"finish", "error", "partial"}

\* extractPDF's catch and finally: handleError throws a new Error, the
\* read stream is destroyed.
ExtractThrows ==
  /\ extPc' = "thrown"
  /\ readStreams' = readStreams \ {"extractPDF"}

\* ocrPDF's catch and finally.
OcrThrows ==
  /\ ocrPc' = "thrown"
  /\ readStreams' = readStreams \ {"ocrPDF"}

\* POST /api/extract calls extractPDF, which runs up to its first await.
CallExtractPDF ==
  /\ ocrPc = "none" /\ extPc = "none"
  /\ extPc' = "upload"
  /\ readStreams' = readStreams \cup {"extractPDF"}
  /\ UNCHANGED <<ocrPc, zip, tempFiles, writtenFiles, elementIndex,
                 processedElements, pending, savedKeys, nextKey, tempZipPath,
                 ocrPdfPath, extResult, ocrResult>>
  /\ UNCHANGED <<cacheVars, sessionVars>>

\* upload, submit, getJobResult or getContent of extractPDF settles.
ExtractSdk(ok) ==
  /\ extPc \in SdkSteps
  /\ IF ok THEN extPc' = AfterSdkStep(extPc) /\ UNCHANGED readStreams
     ELSE ExtractThrows
  /\ UNCHANGED <<ocrPc, zip, tempFiles, writtenFiles, elementIndex,
                 processedElements, pending, savedKeys, nextKey, tempZipPath,
                 ocrPdfPath, extResult, ocrResult>>
  /\ UNCHANGED <<cacheVars, sessionVars>>

\* The archive is piped into extract-<uuid>.zip.
ExtractWrite(outcome) ==
  /\ extPc = "write"
  /\ \E zipPath \in {[prefix |-> "extract", id |-> uuidv4]} :
       /\ tempZipPath' = zipPath
       /\ nextKey' = uuidv4
       /\ IF outcome = "finish"
            THEN /\ tempFiles' = tempFiles \cup {zipPath}
                 /\ writtenFiles' = writtenFiles \cup {zipPath}
                 /\ extPc' = "process"
                 /\ UNCHANGED readStreams
            ELSE /\ tempFiles' = IF outcome = "partial"
                                   THEN tempFiles \cup {zipPath} ELSE tempFiles
                 /\ UNCHANGED writtenFiles
                 /\ ExtractThrows
  /\ UNCHANGED <<ocrPc, zip, elementIndex, processedElements, pending, savedKeys,
                 ocrPdfPath, extResult, ocrResult>>
  /\ UNCHANGED <<cacheVars, sessionVars>>

\* processExtractResult opens the archive and looks for structuredData.json.
ProcessOpen ==
  /\ extPc = "process"
  /\ IF StructuredData \in zipEntries(zip)
       THEN /\ extPc' = "loop"
            /\ elementIndex' = 1
            /\ processedElements' = <<>>
            /\ UNCHANGED readStreams
       ELSE /\ ExtractThrows
            /\ UNCHANGED <<elementIndex, processedElements>>
  /\ UNCHANGED <<ocrPc, zip, tempFiles, writtenFiles, pending, savedKeys, nextKey,
                 tempZipPath, ocrPdfPath, extResult, ocrResult>>
  /\ UNCHANGED <<cacheVars, sessionVars>>

\* One turn of the loop over structuredData.elements, up to its await.
ProcessElement ==
  /\ extPc = "loop"
  /\ elementIndex <= Len(zip.elements)
  /\ \E element \in {zip.elements[elementIndex]} :
       IF element.filePaths # <<>>
         THEN \E filePath \in {element.filePaths[1]} :
                \E entry \in {filePath \in zipEntries(zip)} :
                  IF entry /\ Includes(filePath, "figures")
                    THEN /\ pending' = [type |-> "image", key |-> uuidv4,
                                        format |-> "none"]
                         /\ nextKey' = uuidv4
                         /\ extPc' = "saving"
                         /\ UNCHANGED <<elementIndex, processedElements>>
                  ELSE IF entry /\ Includes(filePath, "tables")
                    THEN /\ pending' =
                              [type |-> "table", key |-> uuidv4,
                               format |-> IF EndsWithCsv(element.Path)
                                            THEN "csv" ELSE "xlsx"]
                         /\ nextKey' = uuidv4
                         /\ extPc' = "saving"
                         /\ UNCHANGED <<elementIndex, processedElements>>
                  ELSE /\ processedElements' =
                            Append(processedElements, TextElement(element.Text))
                       /\ elementIndex' = elementIndex + 1
                       /\ UNCHANGED <<pending, nextKey, extPc>>
       ELSE IF element.Text # ""
         THEN /\ processedElements' =
                   Append(processedElements, TextElement(element.Text))
              /\ elementIndex' = elementIndex + 1
              /\ UNCHANGED <<pending, nextKey, extPc>>
       ELSE /\ elementIndex' = elementIndex + 1
            /\ UNCHANGED <<processedElements, pending, nextKey, extPc>>
  /\ UNCHANGED <<ocrPc, zip, tempFiles, writtenFiles, readStreams, savedKeys,
                 tempZipPath, ocrPdfPath, extResult, ocrResult>>
  /\ UNCHANGED <<cacheVars, sessionVars>>

\* cacheService.saveImage or saveTable settles; the element is pushed
\* after a save that completed, a failed save throws out of the loop.
ProcessSave(ok) ==
  /\ extPc = "saving"
  /\ pending' = NoPending
  /\ IF ok
       THEN /\ savedKeys' = savedKeys \cup {pending.key}
            /\ processedElements' =
                 Append(processedElements,
                        IF pending.type = "image" THEN ImageElement(pending.key)
                        ELSE TableElement(pending.key, pending.format = "csv"))
            /\ elementIndex' = elementIndex + 1
            /\ extPc' = "loop"
            /\ UNCHANGED readStreams
       ELSE /\ ExtractThrows
            /\ UNCHANGED <<savedKeys, processedElements, elementIndex>>
  /\ UNCHANGED <<ocrPc, zip, tempFiles, writtenFiles, nextKey, tempZipPath,
                 ocrPdfPath, extResult, ocrResult>>
  /\ UNCHANGED <<cacheVars, sessionVars>>

\* The loop is over: processExtractResult returns its result.
ProcessReturn ==
  /\ extPc = "loop"
  /\ elementIndex > Len(zip.elements)
  /\ extResult' = BuildResult(processedElements)
  /\ extPc' = "unlink"
  /\ UNCHANGED <<ocrPc, zip, tempFiles, writtenFiles, readStreams, elementIndex,
                 processedElements, pending, savedKeys, nextKey, tempZipPath,
                 ocrPdfPath, ocrResult>>
  /\ UNCHANGED <<cacheVars, sessionVars>>

\* fs.unlink(tempZipPath) settles; extractPDF returns the result.
ExtractUnlink(ok) ==
  /\ extPc = "unlink"
  /\ IF ok
       THEN /\ tempFiles' = tempFiles \ {tempZipPath}
            /\ extResult' = [extResult EXCEPT !.returned = TRUE]
            /\ extPc' = "returned"
            /\ readStreams' = readStreams \ {"extractPDF"}
       ELSE /\ ExtractThrows
            /\ UNCHANGED <<tempFiles, extResult>>
  /\ UNCHANGED <<ocrPc, zip, writtenFiles, elementIndex, processedElements,
                 pending, savedKeys, nextKey, tempZipPath, ocrPdfPath, ocrResult>>
  /\ UNCHANGED <<cacheVars, sessionVars>>

\* POST /api/ocr calls ocrPDF, which runs up to its first await.
CallOcrPDF ==
  /\ ocrPc = "none" /\ extPc = "none"
  /\ ocrPc' = "upload"
  /\ readStreams' = readStreams \cup {"ocrPDF"}
  /\ UNCHANGED <<extPc, zip, tempFiles, writtenFiles, elementIndex,
                 processedElements, pending, savedKeys, nextKey, tempZipPath,
                 ocrPdfPath, extResult, ocrResult>>
  /\ UNCHANGED <<cacheVars, sessionVars>>

\* upload, submit, getJobResult or getContent of ocrPDF settles.
OcrSdk(ok) ==
  /\ ocrPc \in SdkSteps
  /\ IF ok THEN ocrPc' = AfterSdkStep(ocrPc) /\ UNCHANGED readStreams
     ELSE OcrThrows
  /\ UNCHANGED <<extPc, zip, tempFiles, writtenFiles, elementIndex,
                 processedElements, pending, savedKeys, nextKey, tempZipPath,
                 ocrPdfPath, extResult, ocrResult>>
  /\ UNCHANGED <<cacheVars, sessionVars>>

\* The OCR output is piped into ocr-<uuid>.pdf; after 'finish' ocrPDF
\* calls extractPDF on it, which runs up to its first await.
OcrWrite(outcome) ==
  /\ ocrPc = "write"
  /\ \E pdfPath \in {[prefix |-> "ocr", id |-> uuidv4]} :
       /\ ocrPdfPath' = pdfPath
       /\ nextKey' = uuidv4
       /\ IF outcome = "finish"
            THEN /\ tempFiles' = tempFiles \cup {pdfPath}
                 /\ writtenFiles' = writtenFiles \cup {pdfPath}
                 /\ ocrPc' = "extract"
                 /\ extPc' = "upload"
                 /\ readStreams' = readStreams \cup {"extractPDF"}
            ELSE /\ tempFiles' = IF outcome = "partial"
                                   THEN tempFiles \cup {pdfPath} ELSE tempFiles
                 /\ UNCHANGED <<writtenFiles, extPc>>
                 /\ OcrThrows
  /\ UNCHANGED <<zip, elementIndex, processedElements, pending, savedKeys,
                 tempZipPath, extResult, ocrResult>>
  /\ UNCHANGED <<cacheVars, sessionVars>>

\* The extractPDF that ocrPDF awaits has settled.
OcrExtracted ==
  /\ ocrPc = "extract"
  /\ extPc \in {"returned", "thrown"}
  /\ IF extPc = "returned" THEN ocrPc' = "unlink" /\ UNCHANGED readStreams
     ELSE OcrThrows
  /\ UNCHANGED <<extPc, zip, tempFiles, writtenFiles, elementIndex,
                 processedElements, pending, savedKeys, nextKey, tempZipPath,
                 ocrPdfPath, extResult, ocrResult>>
  /\ UNCHANGED <<cacheVars, sessionVars>>

\* fs.unlink(ocrPdfPath) settles; ocrPDF returns its object.
OcrUnlink(ok) ==
  /\ ocrPc = "unlink"
  /\ IF ok
       THEN /\ tempFiles' = tempFiles \ {ocrPdfPath}
            /\ ocrResult' = [returned |-> TRUE, success |-> TRUE,
                             ocrPdfPath |-> ocrPdfPath,
                             extractedText |-> extResult]
            /\ ocrPc' = "returned"
            /\ readStreams' = readStreams \ {"ocrPDF"}
       ELSE /\ OcrThrows
            /\ UNCHANGED <<tempFiles, ocrResult>>
  /\ UNCHANGED <<extPc, zip, writtenFiles, elementIndex, processedElements,
                 pending, savedKeys, nextKey, tempZipPath, ocrPdfPath, extResult>>
  /\ UNCHANGED <<cacheVars, sessionVars>>

PdfInit ==
  /\ SessionIdle
  /\ CacheIdle
  /\ PdfNotCalled
  /\ zip \in Zips

PdfNext ==
  \/ CallExtractPDF
  \/ \E ok \in BOOLEAN : ExtractSdk(ok)
  \/ \E outcome \in WriteOutcomes : ExtractWrite(outcome)
  \/ ProcessOpen
  \/ ProcessElement
  \/ \E ok \in BOOLEAN : ProcessSave(ok)
  \/ ProcessReturn
  \/ \E ok \in BOOLEAN : ExtractUnlink(ok)
  \/ CallOcrPDF
  \/ \E ok \in BOOLEAN : OcrSdk(ok)
  \/ \E outcome \in WriteOutcomes : OcrWrite(outcome)
  \/ OcrExtracted
  \/ \E ok \in BOOLEAN : OcrUnlink(ok)

PdfSpec == PdfInit /\ [][PdfNext]_vars

\* C27: when extractPDF has finished, by returning or by throwing, after
\* its temp ZIP file was written, the temp ZIP file no longer exists.
C27_TempZipDeleted ==
  (extPc \in {"returned", "thrown"} /\ tempZipPath \in writtenFiles)
    => tempZipPath \notin tempFiles

\* C28: when ocrPDF has returned, the file its ocrPdfPath names exists.
C28_OcrPathExists ==
  (ocrPc = "returned") => (ocrResult.ocrPdfPath \in tempFiles)

\* The positions of the elements of type image or table.
Keyed(elements) ==
  {i \in 1..Len(elements) : elements[i].type \in {"image", "table"}}

\* C29: in every result of processExtractResult totalElements is the sum
\* of the three counts and the length of elements; every image or table
\* element, pushed or returned, has a key whose save completed, which is
\* no temp file's uuid, and no two of them share a key.
C29_ElementAccounting ==
  /\ (extPc \in {"unlink", "returned"})
       => /\ extResult.metadata.totalElements
               = extResult.metadata.textElements
                 + extResult.metadata.imageElements
                 + extResult.metadata.tableElements
          /\ extResult.metadata.totalElements = Len(extResult.elements)
          /\ extResult.elements = processedElements
  /\ \A i \in Keyed(processedElements) :
       /\ processedElements[i].key \in savedKeys
       /\ processedElements[i].key \notin {tempZipPath.id, ocrPdfPath.id}
       /\ \A j \in Keyed(processedElements) :
            (processedElements[i].key = processedElements[j].key) => (i = j)

\* C29's case: extractPDF returned a result with an image, a table and a
\* text element, out of an archive that had an element without content.
C29_Witness ==
  /\ extPc = "returned"
  /\ extResult.returned
  /\ extResult.metadata.imageElements = 1
  /\ extResult.metadata.tableElements = 1
  /\ extResult.metadata.textElements = 1

====
